---- MODULE Spec2Model ----
(***************************************************************************)
(* Model of the schema fusion tool (fuse_schema.py).                       *)
(*                                                                         *)
(* A Python dict whose key order matters (the definition map and the       *)
(* performance dataset) is a record [order, defs] / [order, entries]: the  *)
(* keys in insertion order and the mapping.  A dict whose order plays no   *)
(* role (one variable definition, one raw annotation, a per-subject map)   *)
(* is a function from its keys, so that `k in d` is k \in DOMAIN d.        *)
(* A JSON value used only for its truthiness is a BOOLEAN.                 *)
(* datetime.now() is the variable clock: each read returns a value that is *)
(* not smaller than the one before.                                        *)
(***************************************************************************)
EXTENDS Integers, Sequences, FiniteSets, TLC

VARIABLES pc, main_doc, properties, performance_schema, idx,
          fused_count, created_count, variables_with_performance,
          missing_variables, clock, out_file, out_opens, report_file,
          patients, result, performance_data, converted

vars == <<pc, main_doc, properties, performance_schema, idx,
          fused_count, created_count, variables_with_performance,
          missing_variables, clock, out_file, out_opens, report_file,
          patients, result, performance_data, converted>>

(***************************************************************************)
(* Bounds of the model.                                                    *)
(***************************************************************************)
MaxDefs == 2
MaxPerfKeys == 2
MaxClock == 2
MaxNormSubjects == 1
MaxUnmatchedKeys == 2

VarNames == {"age", "height", "weight"}
Subjects == {"p1", "p2"}
\* sub-keys an unmatched sub-object may carry: two of the mapped ones and
\* one the mapping does not know
UnmatchedKeys == {"correction", "missing_docs", "severity"}

(***************************************************************************)
(* Generic helpers.                                                        *)
(***************************************************************************)
Range(s) == {s[k] : k \in DOMAIN s}

DistinctSeqs(S, n) ==
    {s \in UNION {[1..k -> S] : k \in 0..n} :
        \A a, b \in DOMAIN s : a # b => s[a] # s[b]}

BoundedSubsets(S, n) == {T \in SUBSET S : Cardinality(T) <= n}

\* d[k] = v on a dict modelled as a function
SetKey(d, k, v) == [x \in (DOMAIN d) \cup {k} |-> IF x = k THEN v ELSE d[x]]

(***************************************************************************)
(* convert_performance_structure                                           *)
(***************************************************************************)
\* property_mapping without the singular/plural rename
property_mapping_unrenamed ==
    [correction       |-> "correction",
     standardized     |-> "standardized",
     filled_blank     |-> "filled_blank",
     improved_comment |-> "improved_comment",
     missing_docs     |-> "missing_docs",
     contradictions   |-> "contradictions",
     questioned       |-> "questioned"]

property_mapping ==
    [correction       |-> "correction",
     standardized     |-> "standardized",
     filled_blank     |-> "filled_blank",
     improved_comment |-> "improved_comment",
     missing_docs     |-> "missing_doc",
     contradictions   |-> "contradictions",
     questioned       |-> "questioned"]

\* patient_performance with the unmatched branch tested before the blank one
patient_performance_unmatched_first(patient_data) ==
    IF "matched" \in DOMAIN patient_data /\ patient_data.matched
    THEN {"match"}
    ELSE IF "unmatched" \in DOMAIN patient_data
    THEN {property_mapping[old_key] :
            old_key \in {k \in DOMAIN property_mapping :
                            /\ k \in DOMAIN patient_data.unmatched
                            /\ patient_data.unmatched[k]}}
    ELSE {}

\* the body of the loop over the subjects: the flags set for one subject
patient_performance(patient_data) ==
    IF "matched" \in DOMAIN patient_data /\ patient_data.matched
    THEN {"match"}
    ELSE IF "blank" \in DOMAIN patient_data /\ patient_data.blank
    THEN {}
    ELSE IF "unmatched" \in DOMAIN patient_data
    THEN {property_mapping[old_key] :
            old_key \in {k \in DOMAIN property_mapping :
                            /\ k \in DOMAIN patient_data.unmatched
                            /\ patient_data.unmatched[k]}}
    ELSE {}

\* timestamp is the value datetime.now() returns at the top of the call
convert_performance_structure(raw, timestamp) ==
    [patient_id \in {q \in DOMAIN raw : patient_performance(raw[q]) # {}} |->
        [flags |-> patient_performance(raw[patient_id]),
         last_updated |-> timestamp]]

(***************************************************************************)
(* create_placeholder_variable                                             *)
(***************************************************************************)
create_placeholder_variable(var_name) ==
    [anyOf       |-> <<"string", "null">>,
     default     |-> "None",
     description |-> <<"Placeholder for", var_name>>,
     group_id    |-> "unknown",
     notes       |-> "automatically created as a placeholder"]

(***************************************************************************)
(* The input documents.                                                    *)
(***************************************************************************)
\* a definition as found in the definition schema
OriginalDefinition(var_name) ==
    [anyOf       |-> <<"number", "null">>,
     default     |-> "None",
     description |-> <<"Definition of", var_name>>,
     group_id    |-> "clinical",
     notes       |-> ""]

\* a performance record left in the definition schema by an earlier run
StalePerformance == [p2 |-> [flags |-> {"questioned"}, last_updated |-> 0]]

\* the definition of age comes with such a record, the others without
LoadedDefinition(var_name) ==
    IF var_name = "age"
    THEN SetKey(OriginalDefinition(var_name), "performance", StalePerformance)
    ELSE OriginalDefinition(var_name)

DefinitionMaps ==
    {[order |-> o, defs |-> [v \in Range(o) |-> LoadedDefinition(v)]] :
        o \in DistinctSeqs(VarNames, MaxDefs)}

\* the definition schema is a bare map or {"properties": map}
MainDocuments ==
    DefinitionMaps \cup {[properties |-> m] : m \in DefinitionMaps}

\* raw per-subject maps the fusion runs draw from: no subject, one matched
\* subject, one blank subject next to one unmatched subject
FusionRawMaps ==
    {[p \in {} |-> [matched |-> TRUE]],
     [p1 |-> [matched |-> TRUE]],
     [p1 |-> [blank |-> TRUE], p2 |-> [unmatched |-> [missing_docs |-> TRUE]]]}

\* an entry of the performance dataset, with or without the performance
\* sub-object
PerformanceEntries ==
    {[performance |-> r] : r \in FusionRawMaps} \cup {[comment |-> "no data"]}

PerformanceDocuments ==
    UNION {{[order |-> o, entries |-> e] : e \in [Range(o) -> PerformanceEntries]} :
           o \in DistinctSeqs(VarNames, MaxPerfKeys)}

\* raw annotations the normalizer is exercised on: every combination of
\* matched, blank and unmatched, each absent or present
UnmatchedObjects ==
    UNION {[K -> BOOLEAN] : K \in BoundedSubsets(UnmatchedKeys, MaxUnmatchedKeys)}

Annotations ==
    {[comment |-> "free text"]}
    \cup {[matched |-> m] : m \in BOOLEAN}
    \cup {[blank |-> b] : b \in BOOLEAN}
    \cup {[unmatched |-> u] : u \in UnmatchedObjects}
    \cup {[matched |-> m, blank |-> b] : m \in BOOLEAN, b \in BOOLEAN}
    \cup {[matched |-> m, unmatched |-> u] : m \in BOOLEAN, u \in UnmatchedObjects}
    \cup {[blank |-> b, unmatched |-> u] : b \in BOOLEAN, u \in UnmatchedObjects}
    \cup {[matched |-> m, blank |-> b, unmatched |-> u] :
             m \in BOOLEAN, b \in BOOLEAN, u \in UnmatchedObjects}

RawMaps ==
    UNION {[S -> Annotations] : S \in BoundedSubsets(Subjects, MaxNormSubjects)}

(***************************************************************************)
(* fuse_schemas                                                            *)
(***************************************************************************)
NoDocument == [order |-> <<>>, defs |-> <<>>]
NoDataset == [order |-> <<>>, entries |-> <<>>]
NoFile == [status |-> "absent", content |-> NoDocument]

\* get_properties as main_schema.get('properties', {})
get_properties_wrapped_only(main_schema) ==
    IF "properties" \in DOMAIN main_schema
    THEN main_schema.properties
    ELSE NoDocument

\* lines 44-49: the variable map of the loaded document
get_properties(main_schema) ==
    IF "properties" \in DOMAIN main_schema
    THEN main_schema.properties
    ELSE main_schema

Init ==
    /\ pc = "read_main"
    /\ main_doc = NoDocument
    /\ properties = NoDocument
    /\ performance_schema = NoDataset
    /\ idx = 0
    /\ fused_count = 0
    /\ created_count = 0
    /\ variables_with_performance = <<>>
    /\ missing_variables = <<>>
    /\ clock = 1
    /\ out_file = NoFile
    /\ out_opens = 0
    /\ report_file = "absent"
    /\ patients = {}
    /\ result = "running"
    /\ performance_data = <<>>
    /\ converted = <<>>

\* lines 18-29, the document found and parsed
ReadMainOk ==
    /\ pc = "read_main"
    /\ \E doc \in MainDocuments :
          /\ main_doc' = doc
          /\ properties' = get_properties(doc)
    /\ pc' = "read_perf"
    /\ UNCHANGED <<performance_schema, idx, fused_count, created_count,
                   variables_with_performance, missing_variables, clock,
                   out_file, out_opens, report_file, patients, result,
                   performance_data, converted>>

\* lines 24-29: FileNotFoundError or JSONDecodeError
ReadMainFail ==
    /\ pc = "read_main"
    /\ \E error \in {"main not found", "main invalid json"} : pc' = error
    /\ result' = "False"
    /\ UNCHANGED <<main_doc, properties, performance_schema, idx, fused_count,
                   created_count, variables_with_performance,
                   missing_variables, clock, out_file, out_opens, report_file,
                   patients, performance_data, converted>>

\* lines 31-36 and 44-59: the dataset found and parsed, the statistics reset
ReadPerfOk ==
    /\ pc = "read_perf"
    /\ performance_schema' \in PerformanceDocuments
    /\ idx' = 1
    /\ fused_count' = 0
    /\ created_count' = 0
    /\ variables_with_performance' = <<>>
    /\ missing_variables' = <<>>
    /\ pc' = "fuse"
    /\ UNCHANGED <<main_doc, properties, clock, out_file, out_opens,
                   report_file, patients, result, performance_data, converted>>

\* lines 37-42
ReadPerfFail ==
    /\ pc = "read_perf"
    /\ \E error \in {"perf not found", "perf invalid json"} : pc' = error
    /\ result' = "False"
    /\ UNCHANGED <<main_doc, properties, performance_schema, idx, fused_count,
                   created_count, variables_with_performance,
                   missing_variables, clock, out_file, out_opens, report_file,
                   patients, performance_data, converted>>

\* FuseExisting counting the variable whether or not its entry has a
\* performance sub-object
FuseExisting_counted(var_name) ==
    /\ var_name \in DOMAIN properties.defs
    /\ IF "performance" \in DOMAIN performance_schema.entries[var_name]
       THEN \E now \in clock..MaxClock :
              /\ clock' = now
              /\ properties' =
                   [properties EXCEPT !.defs[var_name] =
                       SetKey(@, "performance",
                              convert_performance_structure(
                                  performance_schema.entries[var_name].performance,
                                  now))]
       ELSE UNCHANGED <<clock, properties>>
    /\ fused_count' = fused_count + 1
    /\ variables_with_performance' = Append(variables_with_performance, var_name)
    /\ UNCHANGED <<created_count, missing_variables>>

\* lines 63-71: var_name is a key of properties
FuseExisting(var_name) ==
    /\ var_name \in DOMAIN properties.defs
    /\ IF "performance" \in DOMAIN performance_schema.entries[var_name]
       THEN \E now \in clock..MaxClock :
              /\ clock' = now
              /\ properties' =
                   [properties EXCEPT !.defs[var_name] =
                       SetKey(@, "performance",
                              convert_performance_structure(
                                  performance_schema.entries[var_name].performance,
                                  now))]
              /\ fused_count' = fused_count + 1
              /\ variables_with_performance' =
                     Append(variables_with_performance, var_name)
       ELSE UNCHANGED <<clock, properties, fused_count,
                        variables_with_performance>>
    /\ UNCHANGED <<created_count, missing_variables>>

\* FuseMissing listing the placeholder in variables_with_performance only
\* when its entry has a performance sub-object
FuseMissing_unlisted(var_name) ==
    /\ var_name \notin DOMAIN properties.defs
    /\ missing_variables' = Append(missing_variables, var_name)
    /\ \E now \in clock..MaxClock :
         LET placeholder ==
               IF "performance" \in DOMAIN performance_schema.entries[var_name]
               THEN SetKey(create_placeholder_variable(var_name), "performance",
                           convert_performance_structure(
                               performance_schema.entries[var_name].performance,
                               now))
               ELSE create_placeholder_variable(var_name)
         IN /\ clock' = IF "performance" \in DOMAIN performance_schema.entries[var_name]
                        THEN now ELSE clock
            /\ properties' =
                 [order |-> Append(properties.order, var_name),
                  defs  |-> SetKey(properties.defs, var_name, placeholder)]
    /\ created_count' = created_count + 1
    /\ variables_with_performance' =
          IF "performance" \in DOMAIN performance_schema.entries[var_name]
          THEN Append(variables_with_performance, var_name)
          ELSE variables_with_performance
    /\ UNCHANGED fused_count

\* lines 72-85: var_name is not a key of properties
FuseMissing(var_name) ==
    /\ var_name \notin DOMAIN properties.defs
    /\ missing_variables' = Append(missing_variables, var_name)
    /\ \E now \in clock..MaxClock :
         LET placeholder ==
               IF "performance" \in DOMAIN performance_schema.entries[var_name]
               THEN SetKey(create_placeholder_variable(var_name), "performance",
                           convert_performance_structure(
                               performance_schema.entries[var_name].performance,
                               now))
               ELSE create_placeholder_variable(var_name)
         IN /\ clock' = IF "performance" \in DOMAIN performance_schema.entries[var_name]
                        THEN now ELSE clock
            /\ properties' =
                 [order |-> Append(properties.order, var_name),
                  defs  |-> SetKey(properties.defs, var_name, placeholder)]
    /\ created_count' = created_count + 1
    /\ variables_with_performance' = Append(variables_with_performance, var_name)
    /\ UNCHANGED fused_count

\* one iteration of the loop of line 62
FuseStep ==
    /\ pc = "fuse"
    /\ idx <= Len(performance_schema.order)
    /\ \/ FuseExisting(performance_schema.order[idx])
       \/ FuseMissing(performance_schema.order[idx])
    /\ idx' = idx + 1
    /\ UNCHANGED <<pc, main_doc, performance_schema, out_file, out_opens,
                   report_file, patients, result, performance_data, converted>>

\* the loop of line 62 has run over every key
LoopFinished == pc = "fuse" /\ idx > Len(performance_schema.order)

\* lines 90-98: open(output_path, 'w') raises, nothing is created
WriteOpenFail ==
    /\ LoopFinished
    /\ out_opens' = out_opens + 1
    /\ result' = "False"
    /\ pc' = "write_failed"
    /\ UNCHANGED <<main_doc, properties, performance_schema, idx, fused_count,
                   created_count, variables_with_performance,
                   missing_variables, clock, out_file, report_file, patients,
                   performance_data, converted>>

\* lines 90-98: the file is created and truncated by open, json.dump raises
\* part-way (the device fills up, an I/O error); the except clause does not
\* remove the file
WriteDumpFail ==
    /\ LoopFinished
    /\ out_opens' = out_opens + 1
    /\ out_file' = [status |-> "partial", content |-> NoDocument]
    /\ result' = "False"
    /\ pc' = "write_failed"
    /\ UNCHANGED <<main_doc, properties, performance_schema, idx, fused_count,
                   created_count, variables_with_performance,
                   missing_variables, clock, report_file, patients,
                   performance_data, converted>>

\* WriteOk inside the loop: the document is dumped before the last key
WriteOk_early ==
    /\ pc = "fuse"
    /\ out_opens' = out_opens + 1
    /\ out_file' = [status |-> "complete", content |-> properties]
    /\ pc' = "summary"
    /\ UNCHANGED <<main_doc, properties, performance_schema, idx, fused_count,
                   created_count, variables_with_performance,
                   missing_variables, clock, report_file, patients, result,
                   performance_data, converted>>

\* lines 90-95: main_schema, whose properties is the fused map, is dumped
WriteOk ==
    /\ LoopFinished
    /\ out_opens' = out_opens + 1
    /\ out_file' = [status |-> "complete", content |-> properties]
    /\ pc' = "summary"
    /\ UNCHANGED <<main_doc, properties, performance_schema, idx, fused_count,
                   created_count, variables_with_performance,
                   missing_variables, clock, report_file, patients, result,
                   performance_data, converted>>

\* lines 110-115 applied to a list of variable names: the subjects of the
\* first of them that has a performance field
RECURSIVE scan_patients(_, _)
scan_patients(props, names) ==
    IF names = <<>> THEN {}
    ELSE IF "performance" \in DOMAIN props.defs[Head(names)]
         THEN DOMAIN props.defs[Head(names)].performance
         ELSE scan_patients(props, Tail(names))

\* count_patients looping over the whole of variables_with_performance
count_patients_scan_all(props, names) == scan_patients(props, names)

\* lines 110-115: the loop runs over variables_with_performance[:1]
count_patients(props, names) ==
    scan_patients(props, SubSeq(names, 1, IF Len(names) < 1 THEN Len(names) ELSE 1))

\* line 108: the coverage divides by len(properties); with no variable at
\* all the ZeroDivisionError leaves fuse_schemas uncaught
SummaryCrash ==
    /\ pc = "summary"
    /\ Len(properties.order) = 0
    /\ result' = "ZeroDivisionError"
    /\ pc' = "crashed"
    /\ UNCHANGED <<main_doc, properties, performance_schema, idx, fused_count,
                   created_count, variables_with_performance,
                   missing_variables, clock, out_file, out_opens, report_file,
                   patients, performance_data, converted>>

\* lines 100-122 and 170-173: no missing variable, no report
SummaryNoMissing ==
    /\ pc = "summary"
    /\ Len(properties.order) # 0
    /\ missing_variables = <<>>
    /\ patients' = count_patients(properties, variables_with_performance)
    /\ result' = "True"
    /\ pc' = "done"
    /\ UNCHANGED <<main_doc, properties, performance_schema, idx, fused_count,
                   created_count, variables_with_performance,
                   missing_variables, clock, out_file, out_opens, report_file,
                   performance_data, converted>>

\* lines 100-173: the report of the missing variables is written, or its
\* writing raises and the except clause of line 167 prints a warning
SummaryReport ==
    /\ pc = "summary"
    /\ Len(properties.order) # 0
    /\ missing_variables # <<>>
    /\ patients' = count_patients(properties, variables_with_performance)
    /\ report_file' \in {"written", "failed"}
    /\ result' = "True"
    /\ pc' = "done"
    /\ UNCHANGED <<main_doc, properties, performance_schema, idx, fused_count,
                   created_count, variables_with_performance,
                   missing_variables, clock, out_file, out_opens,
                   performance_data, converted>>

Next ==
    \/ ReadMainOk
    \/ ReadMainFail
    \/ ReadPerfOk
    \/ ReadPerfFail
    \/ FuseStep
    \/ WriteOpenFail
    \/ WriteDumpFail
    \/ WriteOk
    \/ SummaryCrash
    \/ SummaryNoMissing
    \/ SummaryReport

Spec == Init /\ [][Next]_vars

(***************************************************************************)
(* The normalizer on its own: one call of convert_performance_structure on *)
(* a raw per-subject map.                                                  *)
(***************************************************************************)
InitNorm ==
    /\ pc = "normalize"
    /\ performance_data \in RawMaps
    /\ converted = <<>>
    /\ main_doc = NoDocument
    /\ properties = NoDocument
    /\ performance_schema = NoDataset
    /\ idx = 0
    /\ fused_count = 0
    /\ created_count = 0
    /\ variables_with_performance = <<>>
    /\ missing_variables = <<>>
    /\ clock = 1
    /\ out_file = NoFile
    /\ out_opens = 0
    /\ report_file = "absent"
    /\ patients = {}
    /\ result = "running"

Normalize ==
    /\ pc = "normalize"
    /\ \E now \in clock..MaxClock :
          /\ clock' = now
          /\ converted' = convert_performance_structure(performance_data, now)
    /\ pc' = "normalized"
    /\ UNCHANGED <<main_doc, properties, performance_schema, idx, fused_count,
                   created_count, variables_with_performance,
                   missing_variables, out_file, out_opens, report_file,
                   patients, result, performance_data>>

NextNorm == Normalize

SpecNorm == InitNorm /\ [][NextNorm]_vars

(***************************************************************************)
(* Properties.                                                             *)
(***************************************************************************)
\* a key that is present with a true value
Truthy(d, k) == k \in DOMAIN d /\ d[k]

\* the variable map of the definition schema as it was loaded
LoadedMap ==
    IF "properties" \in DOMAIN main_doc THEN main_doc.properties ELSE main_doc

HasPerformance(d) == "performance" \in DOMAIN d

ReadFailed ==
    pc \in {"main not found", "main invalid json",
            "perf not found", "perf invalid json"}

\* the dataset has been loaded
PerfLoaded == pc \in {"fuse", "write_failed", "summary", "crashed", "done"}

\* the fusion loop has processed every key of the dataset
AfterLoop ==
    \/ LoopFinished
    \/ pc \in {"write_failed", "summary", "crashed", "done"}

Finished == ReadFailed \/ pc \in {"write_failed", "crashed", "done"}

MappedKeys ==
    {"correction", "standardized", "filled_blank", "improved_comment",
     "missing_docs", "contradictions", "questioned"}

Renamed(k) == IF k = "missing_docs" THEN "missing_doc" ELSE k

\* the flags the precedence rule gives one raw annotation
ExpectedFlags(a) ==
    CASE Truthy(a, "matched") -> {"match"}
      [] ~Truthy(a, "matched") /\ Truthy(a, "blank") -> {}
      [] ~Truthy(a, "matched") /\ ~Truthy(a, "blank") /\ "unmatched" \in DOMAIN a ->
            {Renamed(k) : k \in {m \in MappedKeys : Truthy(a.unmatched, m)}}
      [] OTHER -> {}

\* C1: the normalized record holds exactly the subjects whose first matching
\* case (matched true, then blank true, then unmatched present) yields a
\* non-empty flag set, each with exactly those flags: match alone for matched,
\* nothing for blank, the renamed true sub-keys for unmatched.
C1_NormalizerPrecedence ==
    pc = "normalized" =>
        /\ DOMAIN converted =
              {s \in DOMAIN performance_data :
                  ExpectedFlags(performance_data[s]) # {}}
        /\ \A s \in DOMAIN converted :
              /\ converted[s].flags = ExpectedFlags(performance_data[s])
              /\ converted[s].flags # {}
              /\ converted[s].last_updated = clock

C1_Witness ==
    /\ pc = "normalized"
    /\ \E s \in DOMAIN performance_data :
          /\ ~Truthy(performance_data[s], "matched")
          /\ ~Truthy(performance_data[s], "blank")
          /\ "unmatched" \in DOMAIN performance_data[s]
          /\ Truthy(performance_data[s].unmatched, "missing_docs")
          /\ Truthy(performance_data[s].unmatched, "correction")
          /\ s \in DOMAIN converted
          /\ converted[s].flags = {"missing_doc", "correction"}

\* C2 as stated: a subject whose annotation has blank true is never a key of
\* the normalized record, whatever other keys the annotation has.
C2_BlankNeverAppears ==
    pc = "normalized" =>
        \A s \in DOMAIN performance_data :
            Truthy(performance_data[s], "blank") => s \notin DOMAIN converted

\* C2 amended: a subject whose annotation has blank true and matched absent or
\* false is never a key of the normalized record, whatever unmatched holds.
C2_BlankWithoutMatchNeverAppears ==
    pc = "normalized" =>
        \A s \in DOMAIN performance_data :
            (Truthy(performance_data[s], "blank")
                /\ ~Truthy(performance_data[s], "matched"))
            => s \notin DOMAIN converted

C2_Witness ==
    /\ pc = "normalized"
    /\ \E s \in DOMAIN performance_data :
          /\ Truthy(performance_data[s], "blank")
          /\ "matched" \in DOMAIN performance_data[s]
          /\ ~performance_data[s].matched
          /\ "unmatched" \in DOMAIN performance_data[s]
          /\ Truthy(performance_data[s].unmatched, "correction")
          /\ s \notin DOMAIN converted

\* the outcomes attached by this run
RunOutcomes ==
    UNION {{properties.defs[v].performance[s] :
               s \in DOMAIN properties.defs[v].performance} :
           v \in {w \in Range(variables_with_performance) :
                     HasPerformance(properties.defs[w])}}

\* C3: every outcome attached during one run carries the same last_updated.
C3_OneBatchTimestamp ==
    \A a, b \in RunOutcomes : a.last_updated = b.last_updated

\* C4: after the fusion loop created_count + fused_count <= the length of
\* variables_with_performance <= the number of variables of the fused map,
\* and created_count is the number of dataset keys absent from the loaded map.
C4_CountBounds ==
    AfterLoop =>
        /\ created_count + fused_count <= Len(variables_with_performance)
        /\ Len(variables_with_performance) <= Len(properties.order)
        /\ Len(properties.order) = Cardinality(DOMAIN properties.defs)
        /\ created_count =
              Cardinality({k \in Range(performance_schema.order) :
                              k \notin DOMAIN LoadedMap.defs})

C4_Witness ==
    /\ AfterLoop
    /\ created_count = 1
    /\ fused_count = 1
    /\ Len(variables_with_performance) = 2
    /\ Len(properties.order) = 3

\* C5: the run reports failure exactly when an input is absent or unparseable
\* or the output cannot be written, and returns success in every other run.
C5_FailureIffInputOrOutputError ==
    Finished =>
        /\ result = "False" <=> (ReadFailed \/ pc = "write_failed")
        /\ ~(ReadFailed \/ pc = "write_failed") => result = "True"

\* C6: fusing a dataset with no entry leaves the names, their order and every
\* definition as loaded, adds no performance field, creates no placeholder and
\* leaves the statistics at zero / empty.
C6_EmptyDatasetChangesNothing ==
    (PerfLoaded /\ Len(performance_schema.order) = 0) =>
        /\ properties.order = LoadedMap.order
        /\ properties.defs = LoadedMap.defs
        /\ fused_count = 0
        /\ created_count = 0
        /\ variables_with_performance = <<>>
        /\ missing_variables = <<>>
        /\ out_file.status = "complete" => out_file.content = LoadedMap

C6_Witness ==
    /\ pc = "done"
    /\ Len(performance_schema.order) = 0
    /\ Len(LoadedMap.order) = 2
    /\ "properties" \notin DOMAIN main_doc
    /\ properties = LoadedMap
    /\ \E v \in DOMAIN properties.defs : HasPerformance(properties.defs[v])
    /\ \E v \in DOMAIN properties.defs : ~HasPerformance(properties.defs[v])
    /\ out_file.status = "complete"

\* C7: nothing of the definition map or the statistics changes before both
\* documents are read; the output is opened at most once, only after the loop
\* has processed every key, and holds the fused map; a run that returns
\* success has written it exactly once; a run whose input is absent or
\* unparseable returns failure and touches neither the output nor the report.
C7_ReadThenFuseThenWriteOnce ==
    /\ ~PerfLoaded =>
          /\ properties = LoadedMap
          /\ variables_with_performance = <<>>
          /\ missing_variables = <<>>
    /\ out_opens <= 1
    /\ (out_opens > 0 \/ out_file.status # "absent") =>
          /\ AfterLoop
          /\ idx = Len(performance_schema.order) + 1
    /\ out_file.status = "complete" => out_file.content = properties
    /\ result = "True" => (out_opens = 1 /\ out_file.status = "complete")
    /\ ReadFailed =>
          /\ result = "False"
          /\ out_opens = 0
          /\ out_file = NoFile
          /\ report_file = "absent"

C7_Witness ==
    /\ pc = "done"
    /\ result = "True"
    /\ Len(performance_schema.order) = 2
    /\ fused_count = 1
    /\ created_count = 1
    /\ out_opens = 1
    /\ out_file.status = "complete"
    /\ out_file.content = properties
    /\ properties # LoadedMap

\* C8: an iteration on a key that exists in the map and whose entry has no
\* performance sub-object changes neither the map nor any statistic; an
\* iteration on a key absent from the map appends it to the missing list and
\* to variables_with_performance, appends a placeholder to the map,
\* increments created_count, and the placeholder has a performance field
\* exactly when the entry has a performance sub-object.
C8_AsymmetricBranches ==
    [][(pc = "fuse" /\ idx <= Len(performance_schema.order) /\ idx' = idx + 1) =>
        LET v == performance_schema.order[idx]
            entry == performance_schema.entries[v]
        IN /\ (v \in DOMAIN properties.defs /\ ~HasPerformance(entry)) =>
                 /\ properties' = properties
                 /\ fused_count' = fused_count
                 /\ created_count' = created_count
                 /\ variables_with_performance' = variables_with_performance
                 /\ missing_variables' = missing_variables
           /\ v \notin DOMAIN properties.defs =>
                 /\ missing_variables' = Append(missing_variables, v)
                 /\ variables_with_performance' =
                       Append(variables_with_performance, v)
                 /\ created_count' = created_count + 1
                 /\ fused_count' = fused_count
                 /\ properties'.order = Append(properties.order, v)
                 /\ DOMAIN properties'.defs = DOMAIN properties.defs \cup {v}
                 /\ \A w \in DOMAIN properties.defs :
                       properties'.defs[w] = properties.defs[w]
                 /\ \A f \in DOMAIN create_placeholder_variable(v) :
                       properties'.defs[v][f] = create_placeholder_variable(v)[f]
                 /\ HasPerformance(properties'.defs[v]) <=> HasPerformance(entry)
    ]_vars

C8_Witness ==
    /\ AfterLoop
    /\ Len(performance_schema.order) = 2
    /\ \E v, w \in Range(performance_schema.order) :
          /\ v \in DOMAIN LoadedMap.defs
          /\ ~HasPerformance(performance_schema.entries[v])
          /\ properties.defs[v] = LoadedMap.defs[v]
          /\ w \notin DOMAIN LoadedMap.defs
          /\ ~HasPerformance(performance_schema.entries[w])
          /\ ~HasPerformance(properties.defs[w])
          /\ variables_with_performance = <<w>>
          /\ missing_variables = <<w>>
          /\ created_count = 1
          /\ fused_count = 0

\* the variables of variables_with_performance that have a performance field,
\* in order
RECURSIVE WithPerformance(_)
WithPerformance(names) ==
    IF names = <<>> THEN <<>>
    ELSE IF HasPerformance(properties.defs[Head(names)])
         THEN <<Head(names)>> \o WithPerformance(Tail(names))
         ELSE WithPerformance(Tail(names))

\* C9 as stated: the reported subject set is the key set of the performance
\* record of the first variable of variables_with_performance that has a
\* performance field, and is empty only when no listed variable has one.
C9_FirstVariableWithPerformance ==
    pc = "done" =>
        /\ WithPerformance(variables_with_performance) # <<>> =>
              patients =
                 DOMAIN properties.defs[
                    Head(WithPerformance(variables_with_performance))].performance
        /\ WithPerformance(variables_with_performance) = <<>> => patients = {}

\* C9 amended: the reported subject set is the key set of the performance
\* record of the first variable of variables_with_performance when that
\* variable has a performance field, and is empty otherwise; later variables
\* are never consulted.
C9_FirstListedVariableOnly ==
    pc = "done" =>
        patients =
           IF /\ variables_with_performance # <<>>
              /\ HasPerformance(properties.defs[variables_with_performance[1]])
           THEN DOMAIN properties.defs[variables_with_performance[1]].performance
           ELSE {}

C9_Witness ==
    /\ pc = "done"
    /\ Len(variables_with_performance) = 2
    /\ ~HasPerformance(properties.defs[variables_with_performance[1]])
    /\ HasPerformance(properties.defs[variables_with_performance[2]])
    /\ DOMAIN properties.defs[variables_with_performance[2]].performance # {}
    /\ patients = {}

\* C10: when persisting the fused document fails, the run returns failure and
\* the output path holds no file with empty or partial content.
C10_WriteAllOrNothing ==
    pc = "write_failed" =>
        /\ result = "False"
        /\ out_file.status = "absent"

====
